---- MODULE Spec2Model ----
(***************************************************************************)
(* State-machine model of imcgknEngine.hpp: the Window input tracker, the  *)
(* Shader program wrapper, the driver-handle wrappers (Texture, VBO, EBO,  *)
(* VAO), and GameObject::Render.                                           *)
(***************************************************************************)
EXTENDS Integers, Sequences, FiniteSets, TLC

(***************************************************************************)
(* Bounds of the model.                                                    *)
(***************************************************************************)
MaxButton == 5       \* highest mouse-button code modelled (uint8_t)
MaxEvents == 2       \* events pending for one FirstUpdate
MaxClock == 1        \* performance-counter ticks that may elapse
MaxShaders == 2      \* Shader objects that may exist at once
MaxPrograms == 2     \* glCreateProgram calls
MaxDeletes == 2      \* glDeleteProgram calls counted per program name
MaxNames == 2        \* names glGen* hands out in all
MaxLen == 1          \* elements of a vertex or index list
MaxQueries == 2      \* glGetUniformLocation calls recorded per Shader object and name

(***************************************************************************)
(* enum class KeyState, by enumerator value.                               *)
(***************************************************************************)
JustPressed == 0
JustReleased == 1
Down == 2
Released == 3
KeyState == {JustPressed, JustReleased, Down, Released}

\* std::unordered_map::operator[] value-initialises a missing entry:
\* KeyState{} is the enumerator with value 0.
DefaultKeyState == 0

NumInitButtons == 5      \* for (int i = 0; i < 5; ++i) m_MouseButtons[i] = Released
m_ZoomSpeed == 550       \* float m_ZoomSpeed = 550.0f

\* One tick of SDL_GetPerformanceCounter() is taken to be 0.1 s
\* (SDL_GetPerformanceFrequency() = 10); times are kept in ticks and
\* m_ScrollDistance in tenths, so that the arithmetic is exact.

\* One scancode (SDL_SCANCODE_A, below SDL_NUM_SCANCODES), one button the
\* constructor initialises (SDL_BUTTON_LEFT) and the codes from 5 (SDL_BUTTON_X2) up.
KeyCodes == {4}
ButtonCodes == {1} \cup (NumInitButtons..MaxButton)
WindowSizes == {<<8, 6>>, <<16, 12>>}
Motions == {[xrel |-> 1, yrel |-> 0, x |-> 3, y |-> 4],
            [xrel |-> 0, yrel |-> -1, x |-> 3, y |-> 3]}

\* Key and button events.
InputEvents ==
    [type : {"SDL_KEYDOWN", "SDL_KEYUP"}, scancode : KeyCodes]
    \cup [type : {"SDL_MOUSEBUTTONDOWN", "SDL_MOUSEBUTTONUP"}, button : ButtonCodes]

\* Quit, window, pointer-motion and wheel events.
FrameEvents ==
    {[type |-> "SDL_QUIT"]}
    \cup [type : {"SDL_WINDOWEVENT"}, event : {"SDL_WINDOWEVENT_RESIZED"}, data : WindowSizes]
    \cup [type : {"SDL_WINDOWEVENT"}, event : {"SDL_WINDOWEVENT_EXPOSED"}, data : {<<0, 0>>}]
    \cup [type : {"SDL_MOUSEMOTION"}, motion : Motions]
    \cup [type : {"SDL_MOUSEWHEEL"}, preciseY : {-1, 0, 1}]

SeqsOf(S) == UNION {[1..n -> S] : n \in 0..MaxEvents}

\* Events of one key and one button, and one pointer motion (which may repeat).
MixedEvents ==
    [type : {"SDL_KEYDOWN", "SDL_KEYUP"}, scancode : KeyCodes]
    \cup [type : {"SDL_MOUSEBUTTONDOWN", "SDL_MOUSEBUTTONUP"}, button : {1}]
    \cup [type : {"SDL_MOUSEMOTION"}, motion : {m \in Motions : m.xrel = 1}]
MixedSeqs == SeqsOf(MixedEvents)
InputSeqs == SeqsOf(InputEvents)
FrameSeqs == SeqsOf(FrameEvents)

VARIABLES
    winState,        \* "none" before Window::Window, "ok" once it returned, "thrown" if it threw
    window,          \* SDL_Window* window: "null" or "valid"
    glContext,       \* SDL_GLContext glContext: "unset", "null" or "valid"
    viewport,        \* driver viewport set by glViewport: <<w, h>> or <<>>
    m_Width, m_Height,
    m_IsOpen, m_IsResized,
    m_DeltaTime,     \* in performance-counter ticks (seconds * PerfFrequency)
    m_LastFrame,     \* performance-counter sample
    m_MousePosX, m_MousePosY, m_MouseRelX, m_MouseRelY,
    m_ScrollDistance,\* scaled by PerfFrequency: 550 stands for 55.0
    m_Keys,          \* std::unordered_map<SDL_Scancode, KeyState>
    m_MouseButtons,  \* std::unordered_map<uint8_t, KeyState>
    clock,           \* SDL_GetPerformanceCounter()
    touched,         \* history: codes named by a drained key/button event
    inFrame,         \* history: FirstUpdate has run and SecondUpdate has not yet
    closeRequested   \* history: a quit event was drained or CloseWindow was called

winVars == <<winState, window, glContext, viewport, m_Width, m_Height, m_IsOpen,
             m_IsResized, m_DeltaTime, m_LastFrame, m_MousePosX, m_MousePosY,
             m_MouseRelX, m_MouseRelY, m_ScrollDistance, m_Keys, m_MouseButtons,
             clock, touched, inFrame, closeRequested>>

VARIABLES
    shaders,               \* per object: [live, m_ID]
    glPrograms,            \* names returned by glCreateProgram so far
    glDeleteProgramCalls,  \* per program name: glDeleteProgram calls with it
    glCurrentProgram,      \* the program made current by glUseProgram
    glUniforms,            \* per program name: what glGetUniformLocation answers per name
    shCalls,               \* the driver calls issued by the latest SetX call, in order
    glLocationQueries      \* history, per object and name: the answers of the
                           \* glGetUniformLocation calls made through the object

shVars == <<shaders, glPrograms, glDeleteProgramCalls, glCurrentProgram,
            glUniforms, shCalls, glLocationQueries>>

VARIABLES
    objs,            \* per object: [cls |-> "none"] or the members of a Texture,
                     \* VertexBufferObject, ElementBufferObject or VertexArrayObject
    glNames,         \* per name space: names returned by glGen* so far
    glDeleteCalls,   \* per name space and nonzero name: glDelete* calls with it
    glZeroDeletes,   \* name spaces in which glDelete* was called with the name 0
    glBufferSize     \* per buffer name: size of its data store (GL_BUFFER_SIZE)

resVars == <<objs, glNames, glDeleteCalls, glZeroDeletes, glBufferSize>>

VARIABLES
    m_Renderable,    \* GameObject::m_Renderable: NullPtr or the Renderable pointed to
    m_Texture,       \* GameObject::m_Texture: NullPtr or the Texture pointed to
    uniformCache,    \* names in m_UniformLocations of the Shader passed to Render
    glBinding,       \* the context's current program, vertex array and texture
    glCalls,         \* the driver calls issued by the last Render, in order
    crashed          \* the process was ended by a null-pointer read

goVars == <<m_Renderable, m_Texture, uniformCache, glBinding, glCalls, crashed>>

VARIABLES
    clog             \* the entries the latest operation wrote to std::clog, in order

vars == <<winVars, shVars, resVars, goVars, clog>>

\* An operation that never reaches the Log macro.
NoLog == clog' = <<>>
\* Log("Warning! << ..."), Log("Info! << ...")
Warning(what) == [level |-> "Warning", what |-> what]
Info(what) == [level |-> "Info", what |-> what]

OnlyWindow == UNCHANGED <<shVars, resVars, goVars>> /\ NoLog
OnlyShader == UNCHANGED <<winVars, resVars, goVars>> /\ NoLog
OnlyResources == UNCHANGED <<winVars, shVars, goVars>> /\ NoLog
OnlyGameObject == UNCHANGED <<winVars, shVars, resVars>> /\ NoLog

\* A driver call.
Call(fn, args) == [fn |-> fn, args |-> args]
\* The uniform names callers pass.
UniformNames == {"model", "tex"}

EmptyMap == [c \in {} |-> Released]

\* In-class member initialisers of Window.
WinInit ==
    /\ winState = "none"
    /\ window = "null"
    /\ glContext = "unset"
    /\ viewport = <<>>
    /\ m_Width = 0 /\ m_Height = 0
    /\ m_IsOpen = TRUE /\ m_IsResized = FALSE
    /\ m_DeltaTime = 0 /\ m_LastFrame = 0
    /\ m_MousePosX = 0 /\ m_MousePosY = 0 /\ m_MouseRelX = 0 /\ m_MouseRelY = 0
    /\ m_ScrollDistance = 0
    /\ m_Keys = EmptyMap /\ m_MouseButtons = EmptyMap
    /\ clock = 0
    /\ touched = {}
    /\ inFrame = FALSE
    /\ closeRequested = FALSE

\* std::unordered_map::operator[]: the map after the access.
MapIndex(m, c) == IF c \in DOMAIN m THEN m ELSE m @@ (c :> DefaultKeyState)

\* Window::Window. sdlInit, createWindow, createContext, gladLoad are the
\* results of SDL_Init, SDL_CreateWindow, SDL_GL_CreateContext and
\* gladLoadGLLoader; drawable is what SDL_GL_GetDrawableSize reports.
WindowCtor(size, sdlInit, createWindow, createContext, gladLoad, drawable) ==
    /\ OnlyWindow
    /\ winState = "none"
    /\ UNCHANGED <<m_IsOpen, m_IsResized, m_DeltaTime, m_MousePosX, m_MousePosY,
                   m_MouseRelX, m_MouseRelY, m_ScrollDistance, clock, touched, inFrame, closeRequested>>
    /\ IF ~sdlInit
       THEN /\ winState' = "thrown"
            /\ m_Width' = size[1] /\ m_Height' = size[2]
            /\ UNCHANGED <<window, glContext, viewport, m_LastFrame, m_Keys, m_MouseButtons>>
       ELSE IF ~createWindow
       THEN /\ winState' = "thrown"
            /\ m_Width' = size[1] /\ m_Height' = size[2]
            /\ UNCHANGED <<window, glContext, viewport, m_LastFrame, m_Keys, m_MouseButtons>>
       ELSE IF ~gladLoad
       THEN /\ winState' = "thrown"
            /\ window' = "valid"
            /\ glContext' = IF createContext THEN "valid" ELSE "null"
            /\ m_Width' = size[1] /\ m_Height' = size[2]
            /\ UNCHANGED <<viewport, m_LastFrame, m_Keys, m_MouseButtons>>
       ELSE /\ winState' = "ok"
            /\ window' = "valid"
            /\ glContext' = IF createContext THEN "valid" ELSE "null"
            /\ m_Width' = drawable[1] /\ m_Height' = drawable[2]
            /\ viewport' = drawable
            /\ m_LastFrame' = clock
            /\ m_Keys' = [k \in KeyCodes |-> Released]
            /\ m_MouseButtons' = [b \in {c \in ButtonCodes : c < NumInitButtons} |-> Released]

\* The performance counter advances.
Tick ==
    /\ OnlyWindow
    /\ clock < MaxClock
    /\ clock' = clock + 1
    /\ UNCHANGED <<winState, window, glContext, viewport, m_Width, m_Height, m_IsOpen,
                   m_IsResized, m_DeltaTime, m_LastFrame, m_MousePosX, m_MousePosY,
                   m_MouseRelX, m_MouseRelY, m_ScrollDistance, m_Keys, m_MouseButtons,
                   touched, inFrame, closeRequested>>

\* Window::UpdateDeltaTime
UpdateDeltaTime ==
    /\ OnlyWindow
    /\ winState = "ok"
    /\ m_DeltaTime' = clock - m_LastFrame
    /\ m_LastFrame' = clock
    /\ UNCHANGED <<winState, window, glContext, viewport, m_Width, m_Height, m_IsOpen,
                   m_IsResized, m_MousePosX, m_MousePosY, m_MouseRelX, m_MouseRelY,
                   m_ScrollDistance, m_Keys, m_MouseButtons, clock,
                   touched, inFrame, closeRequested>>

\* The relative pointer displacement (GetMouseRelX, GetMouseRelY).
MouseRel == <<m_MouseRelX, m_MouseRelY>>

\* The members FirstUpdate's switch may write, as one record.
WinRec ==
    [keys |-> m_Keys, buttons |-> m_MouseButtons, isOpen |-> m_IsOpen,
     isResized |-> m_IsResized, width |-> m_Width, height |-> m_Height,
     viewport |-> viewport, relX |-> m_MouseRelX, relY |-> m_MouseRelY,
     posX |-> m_MousePosX, posY |-> m_MousePosY, scroll |-> m_ScrollDistance]

\* WheelScroll with the two directions exchanged.
WheelScrollSwapped(scroll, preciseY, dt) ==
    IF preciseY > 0 THEN scroll + m_ZoomSpeed * dt
    ELSE IF preciseY < 0 THEN scroll - m_ZoomSpeed * dt
    ELSE scroll

\* case SDL_MOUSEWHEEL: the new m_ScrollDistance. dt is m_DeltaTime.
WheelScroll(scroll, preciseY, dt) ==
    IF preciseY > 0 THEN scroll - m_ZoomSpeed * dt
    ELSE IF preciseY < 0 THEN scroll + m_ZoomSpeed * dt
    ELSE scroll

\* ApplyEvent with the relative displacement added up.
ApplyEventSummingMotion(w, ev, dt) ==
    CASE ev.type = "SDL_QUIT" -> [w EXCEPT !.isOpen = FALSE]
      [] ev.type = "SDL_KEYDOWN" ->
            [w EXCEPT !.keys = [MapIndex(w.keys, ev.scancode) EXCEPT ![ev.scancode] = JustPressed]]
      [] ev.type = "SDL_KEYUP" ->
            [w EXCEPT !.keys = [MapIndex(w.keys, ev.scancode) EXCEPT ![ev.scancode] = JustReleased]]
      [] ev.type = "SDL_MOUSEBUTTONDOWN" ->
            [w EXCEPT !.buttons = [MapIndex(w.buttons, ev.button) EXCEPT ![ev.button] = JustPressed]]
      [] ev.type = "SDL_MOUSEBUTTONUP" ->
            [w EXCEPT !.buttons = [MapIndex(w.buttons, ev.button) EXCEPT ![ev.button] = JustReleased]]
      [] ev.type = "SDL_WINDOWEVENT" ->
            IF ev.event = "SDL_WINDOWEVENT_RESIZED"
            THEN [w EXCEPT !.width = ev.data[1], !.height = ev.data[2],
                           !.viewport = ev.data, !.isResized = TRUE]
            ELSE w
      [] ev.type = "SDL_MOUSEMOTION" ->
            [w EXCEPT !.relX = @ + ev.motion.xrel, !.relY = @ + ev.motion.yrel,
                      !.posX = ev.motion.x, !.posY = ev.motion.y]
      [] ev.type = "SDL_MOUSEWHEEL" ->
            [w EXCEPT !.scroll = WheelScroll(w.scroll, ev.preciseY, dt)]
      [] OTHER -> w

\* One iteration of the while (SDL_PollEvent(&ev)) loop: the switch on ev.type.
ApplyEvent(w, ev, dt) ==
    CASE ev.type = "SDL_QUIT" -> [w EXCEPT !.isOpen = FALSE]
      [] ev.type = "SDL_KEYDOWN" ->
            [w EXCEPT !.keys = [MapIndex(w.keys, ev.scancode) EXCEPT ![ev.scancode] = JustPressed]]
      [] ev.type = "SDL_KEYUP" ->
            [w EXCEPT !.keys = [MapIndex(w.keys, ev.scancode) EXCEPT ![ev.scancode] = JustReleased]]
      [] ev.type = "SDL_MOUSEBUTTONDOWN" ->
            [w EXCEPT !.buttons = [MapIndex(w.buttons, ev.button) EXCEPT ![ev.button] = JustPressed]]
      [] ev.type = "SDL_MOUSEBUTTONUP" ->
            [w EXCEPT !.buttons = [MapIndex(w.buttons, ev.button) EXCEPT ![ev.button] = JustReleased]]
      [] ev.type = "SDL_WINDOWEVENT" ->
            IF ev.event = "SDL_WINDOWEVENT_RESIZED"
            THEN [w EXCEPT !.width = ev.data[1], !.height = ev.data[2],
                           !.viewport = ev.data, !.isResized = TRUE]
            ELSE w
      [] ev.type = "SDL_MOUSEMOTION" ->
            [w EXCEPT !.relX = ev.motion.xrel, !.relY = ev.motion.yrel,
                      !.posX = ev.motion.x, !.posY = ev.motion.y]
      [] ev.type = "SDL_MOUSEWHEEL" ->
            [w EXCEPT !.scroll = WheelScroll(w.scroll, ev.preciseY, dt)]
      [] OTHER -> w

\* The whole while (SDL_PollEvent(&ev)) loop over the pending events.
RECURSIVE Drain(_, _, _)
Drain(w, evs, dt) ==
    IF evs = <<>> THEN w ELSE Drain(ApplyEvent(w, Head(evs), dt), Tail(evs), dt)

\* The codes named by the key and button events of evs.
Named(evs) ==
    {<<"key", evs[i].scancode>> : i \in {j \in DOMAIN evs : evs[j].type \in {"SDL_KEYDOWN", "SDL_KEYUP"}}}
    \cup {<<"button", evs[i].button>> :
              i \in {j \in DOMAIN evs : evs[j].type \in {"SDL_MOUSEBUTTONDOWN", "SDL_MOUSEBUTTONUP"}}}

Abs(x) == IF x < 0 THEN -x ELSE x

\* Window::FirstUpdate with evs pending in the SDL event queue.
FirstUpdate(evs) ==
    /\ OnlyWindow
    /\ winState = "ok"
    /\ LET w == Drain(WinRec, evs, m_DeltaTime) IN
        /\ Abs(w.scroll) <= m_ZoomSpeed    \* the accumulator is followed this far
        /\ m_Keys' = w.keys
        /\ m_MouseButtons' = w.buttons
        /\ m_IsOpen' = w.isOpen
        /\ m_IsResized' = w.isResized
        /\ m_Width' = w.width /\ m_Height' = w.height
        /\ viewport' = w.viewport
        /\ m_MouseRelX' = w.relX /\ m_MouseRelY' = w.relY
        /\ m_MousePosX' = w.posX /\ m_MousePosY' = w.posY
        /\ m_ScrollDistance' = w.scroll
    /\ touched' = touched \cup Named(evs)
    /\ inFrame' = TRUE
    /\ closeRequested' = (closeRequested \/ \E i \in DOMAIN evs : evs[i].type = "SDL_QUIT")
    /\ UNCHANGED <<winState, window, glContext, m_DeltaTime, m_LastFrame, clock>>

\* Decay without the JustReleased test.
DecayPressedOnly(s) == IF s = JustPressed THEN Down ELSE s

\* The body of both loops of SecondUpdate, for one map entry.
Decay(s) ==
    LET s1 == IF s = JustPressed THEN Down ELSE s
    IN IF s1 = JustReleased THEN Released ELSE s1

\* SecondUpdate with m_ScrollDistance among the values it clears.
SecondUpdateClearingScroll ==
    /\ OnlyWindow
    /\ winState = "ok"
    /\ m_Keys' = [k \in DOMAIN m_Keys |-> Decay(m_Keys[k])]
    /\ m_MouseButtons' = [b \in DOMAIN m_MouseButtons |-> Decay(m_MouseButtons[b])]
    /\ m_IsResized' = FALSE
    /\ m_MouseRelX' = 0
    /\ m_MouseRelY' = 0
    /\ m_ScrollDistance' = 0
    /\ UNCHANGED <<winState, window, glContext, viewport, m_Width, m_Height, m_IsOpen,
                   m_DeltaTime, m_LastFrame, m_MousePosX, m_MousePosY, clock, touched>>
    /\ inFrame' = FALSE
    /\ UNCHANGED closeRequested

\* SecondUpdate without the three assignments that end it.
SecondUpdateDecayOnly ==
    /\ OnlyWindow
    /\ winState = "ok"
    /\ m_Keys' = [k \in DOMAIN m_Keys |-> Decay(m_Keys[k])]
    /\ m_MouseButtons' = [b \in DOMAIN m_MouseButtons |-> Decay(m_MouseButtons[b])]
    /\ UNCHANGED <<winState, window, glContext, viewport, m_Width, m_Height, m_IsOpen,
                   m_IsResized, m_MouseRelX, m_MouseRelY, m_DeltaTime, m_LastFrame,
                   m_MousePosX, m_MousePosY, m_ScrollDistance, clock, touched>>
    /\ inFrame' = FALSE
    /\ UNCHANGED closeRequested

\* Window::SecondUpdate
SecondUpdate ==
    /\ OnlyWindow
    /\ winState = "ok"
    /\ m_Keys' = [k \in DOMAIN m_Keys |-> Decay(m_Keys[k])]
    /\ m_MouseButtons' = [b \in DOMAIN m_MouseButtons |-> Decay(m_MouseButtons[b])]
    /\ m_IsResized' = FALSE
    /\ m_MouseRelX' = 0
    /\ m_MouseRelY' = 0
    /\ UNCHANGED <<winState, window, glContext, viewport, m_Width, m_Height, m_IsOpen,
                   m_DeltaTime, m_LastFrame, m_MousePosX, m_MousePosY, m_ScrollDistance,
                   clock, touched>>
    /\ inFrame' = FALSE
    /\ UNCHANGED closeRequested

\* CloseWindow without the assignment.
CloseWindowIgnored ==
    /\ OnlyWindow
    /\ winState = "ok"
    /\ UNCHANGED m_IsOpen
    /\ UNCHANGED <<winState, window, glContext, viewport, m_Width, m_Height, m_IsResized,
                   m_DeltaTime, m_LastFrame, m_MousePosX, m_MousePosY, m_MouseRelX,
                   m_MouseRelY, m_ScrollDistance, m_Keys, m_MouseButtons, clock,
                   touched, inFrame>>
    /\ closeRequested' = TRUE

\* Window::CloseWindow
CloseWindow ==
    /\ OnlyWindow
    /\ winState = "ok"
    /\ m_IsOpen' = FALSE
    /\ UNCHANGED <<winState, window, glContext, viewport, m_Width, m_Height, m_IsResized,
                   m_DeltaTime, m_LastFrame, m_MousePosX, m_MousePosY, m_MouseRelX,
                   m_MouseRelY, m_ScrollDistance, m_Keys, m_MouseButtons, clock,
                   touched, inFrame>>
    /\ closeRequested' = TRUE

\* CheckKeyDown reporting a press as down at once.
CheckKeyDownRetPressed(key) == MapIndex(m_Keys, key)[key] \in {Down, JustPressed}

\* Return values of the four queries in the current state.
CheckKeyUpRet(key) == MapIndex(m_Keys, key)[key] = JustReleased
CheckKeyDownRet(key) == MapIndex(m_Keys, key)[key] = Down
CheckMouseButtonUpRet(key) == MapIndex(m_MouseButtons, key)[key] = JustReleased
CheckMouseButtonDownRet(key) == MapIndex(m_MouseButtons, key)[key] = Down

\* Window::CheckKeyUp / CheckKeyDown: m_Keys[key] may insert.
CheckKey(key) ==
    /\ OnlyWindow
    /\ winState = "ok"
    /\ m_Keys' = MapIndex(m_Keys, key)
    /\ UNCHANGED <<winState, window, glContext, viewport, m_Width, m_Height, m_IsOpen,
                   m_IsResized, m_DeltaTime, m_LastFrame, m_MousePosX, m_MousePosY,
                   m_MouseRelX, m_MouseRelY, m_ScrollDistance, m_MouseButtons, clock,
                   touched, inFrame, closeRequested>>

\* Window::CheckMouseButtonUp / CheckMouseButtonDown: m_MouseButtons[key] may insert.
CheckMouseButton(key) ==
    /\ OnlyWindow
    /\ winState = "ok"
    /\ m_MouseButtons' = MapIndex(m_MouseButtons, key)
    /\ UNCHANGED <<winState, window, glContext, viewport, m_Width, m_Height, m_IsOpen,
                   m_IsResized, m_DeltaTime, m_LastFrame, m_MousePosX, m_MousePosY,
                   m_MouseRelX, m_MouseRelY, m_ScrollDistance, m_Keys, clock, touched,
                   inFrame, closeRequested>>

(***************************************************************************)
(* Shader: the program handle and the driver's program objects.            *)
(***************************************************************************)
ShaderSlots == 1..MaxShaders
ProgramNames == 1..MaxPrograms

\* glGetUniformLocation answers -1 for a name that is no active uniform of
\* the program, and for a program that is not linked.
Locations == {-1, 0, 1}
NoLocations == [n \in UniformNames |-> -1]
\* The active uniforms a linked program may have: both names, or "model" only.
UniformTables == {[n \in UniformNames |-> IF n = "model" THEN 0 ELSE 1],
                  [n \in UniformNames |-> IF n = "model" THEN 0 ELSE -1]}

\* std::map<std::string, int> m_UniformLocations, empty.
NoUniformLocations == [n \in {} |-> 0]

\* unsigned int m_ID = 0 (in-class initialiser); the object does not exist yet.
NoShader == [live |-> FALSE, m_ID |-> 0, m_UniformLocations |-> NoUniformLocations]

ShaderInit ==
    /\ shaders = [s \in ShaderSlots |-> NoShader]
    /\ glPrograms = {}
    /\ glDeleteProgramCalls = [h \in ProgramNames |-> 0]
    /\ glCurrentProgram = 0
    /\ glUniforms = [h \in ProgramNames |-> NoLocations]
    /\ shCalls = <<>>
    /\ glLocationQueries = [s \in ShaderSlots |-> [n \in UniformNames |-> <<>>]]
    /\ clog = <<>>

\* glDeleteProgram(id): the call counts after it; the name 0 is silently ignored.
glDeleteProgram(calls, id) ==
    IF id = 0 THEN calls ELSE [calls EXCEPT ![id] = @ + 1]

\* What the environment answers to one Shader construction: whether each
\* file opens (the default geometry path "" never does), whether the driver
\* compiles each stage and links the program, and the linked program's uniforms.
ShaderInputs ==
    [vertexOpen : BOOLEAN, fragmentOpen : BOOLEAN, geometryOpen : BOOLEAN,
     vertexCompiles : BOOLEAN, fragmentCompiles : BOOLEAN, geometryCompiles : BOOLEAN,
     links : BOOLEAN, uniforms : UniformTables]

\* Shader::GetShaderSource(path): the source read, and what is logged.
GetShaderSource(opens) ==
    IF opens THEN [source |-> "text", log |-> <<>>]
    ELSE [source |-> "", log |-> <<Warning("Failed to open file from path")>>]

\* Shader::CompileShader(shader, typeShader): what is logged.
CompileShader(success) ==
    IF success THEN <<Info("Succesfully compiled shader")>>
    ELSE <<Warning("Failed to compile shader")>>

\* Whether glLinkProgram succeeds: never with a stage that is empty or did
\* not compile, else as the driver decides.
Links(in) ==
    /\ in.links
    /\ in.vertexOpen /\ in.vertexCompiles
    /\ in.fragmentOpen /\ in.fragmentCompiles
    /\ in.geometryOpen => in.geometryCompiles

\* What Shader::Shader writes to std::clog. The result of glLinkProgram is
\* never read (no glGetProgramiv), so nothing is logged about it.
ShaderCtorLog(in) ==
    GetShaderSource(in.vertexOpen).log
    \o GetShaderSource(in.fragmentOpen).log
    \o GetShaderSource(in.geometryOpen).log
    \o CompileShader(in.vertexCompiles)
    \o CompileShader(in.fragmentCompiles)
    \o (IF GetShaderSource(in.geometryOpen).source # ""
        THEN CompileShader(in.geometryCompiles) ELSE <<>>)

\* Shader::Shader(vertexShaderPath, fragmentShaderPath, geometryShaderPath):
\* m_ID = glCreateProgram().
ShaderCtor(s, in) ==
    /\ UNCHANGED <<winVars, resVars, goVars>>
    /\ ~shaders[s].live
    /\ Cardinality(glPrograms) < MaxPrograms
    /\ LET id == Cardinality(glPrograms) + 1 IN
        /\ glPrograms' = glPrograms \cup {id}
        /\ shaders' = [shaders EXCEPT ![s] =
                          [live |-> TRUE, m_ID |-> id,
                           m_UniformLocations |-> NoUniformLocations]]
        /\ glUniforms' = [glUniforms EXCEPT ![id] =
                             IF Links(in) THEN in.uniforms ELSE NoLocations]
    /\ clog' = ShaderCtorLog(in)
    /\ glLocationQueries' = [glLocationQueries EXCEPT ![s] = [n \in UniformNames |-> <<>>]]
    /\ UNCHANGED <<glDeleteProgramCalls, glCurrentProgram, shCalls>>

\* The implicitly-defined copy constructor Shader(const Shader&): the class
\* declares a destructor but neither copy nor move operations, so copies are
\* allowed and Shader(Shader&&) resolves to it as well.
ShaderCopyCtor(dst, src) ==
    /\ OnlyShader
    /\ dst # src
    /\ ~shaders[dst].live
    /\ shaders[src].live
    /\ shaders' = [shaders EXCEPT ![dst] = shaders[src]]
    /\ glLocationQueries' = [glLocationQueries EXCEPT ![dst] = [n \in UniformNames |-> <<>>]]
    /\ UNCHANGED <<glPrograms, glDeleteProgramCalls, glCurrentProgram, glUniforms, shCalls>>

\* The implicitly-defined copy assignment Shader& operator=(const Shader&).
ShaderCopyAssign(dst, src) ==
    /\ OnlyShader
    /\ shaders[dst].live
    /\ shaders[src].live
    /\ shaders' = [shaders EXCEPT ![dst] = shaders[src]]
    /\ UNCHANGED <<glPrograms, glDeleteProgramCalls, glCurrentProgram, glUniforms,
                   shCalls, glLocationQueries>>

\* Shader::~Shader
ShaderDtor(s) ==
    /\ OnlyShader
    /\ shaders[s].live
    /\ shaders[s].m_ID # 0 => glDeleteProgramCalls[shaders[s].m_ID] < MaxDeletes
    /\ glDeleteProgramCalls' = glDeleteProgram(glDeleteProgramCalls, shaders[s].m_ID)
    /\ shaders' = [shaders EXCEPT ![s].live = FALSE]
    /\ UNCHANGED <<glPrograms, glCurrentProgram, glUniforms, shCalls, glLocationQueries>>

\* Shader::Use
ShaderUse(s) ==
    /\ OnlyShader
    /\ shaders[s].live
    /\ glCurrentProgram' = shaders[s].m_ID
    /\ UNCHANGED <<shaders, glPrograms, glDeleteProgramCalls, glUniforms, shCalls,
                   glLocationQueries>>

\* Shader::Unuse
ShaderUnuse(s) ==
    /\ OnlyShader
    /\ shaders[s].live
    /\ glCurrentProgram' = 0
    /\ UNCHANGED <<shaders, glPrograms, glDeleteProgramCalls, glUniforms, shCalls,
                   glLocationQueries>>

\* glGetUniformLocation(program, name): -1 for a deleted program.
glGetUniformLocation(program, name) ==
    IF program = 0 \/ glDeleteProgramCalls[program] > 0 THEN -1
    ELSE glUniforms[program][name]

\* GetUniformLocation without the lookup in m_UniformLocations.
GetUniformLocationUncached(sh, name) ==
    LET location == glGetUniformLocation(sh.m_ID, name)
    IN  [location |-> location,
         m_UniformLocations |->
            IF name \in DOMAIN sh.m_UniformLocations THEN sh.m_UniformLocations
            ELSE (name :> location) @@ sh.m_UniformLocations,
         calls |-> <<Call("glGetUniformLocation", <<sh.m_ID, name>>)>>,
         answers |-> <<location>>]

\* Shader::GetUniformLocation(name): the location returned, the map after
\* the call, the driver calls made and what they answered. std::map::insert
\* keeps an existing entry.
GetUniformLocation(sh, name) ==
    IF name \in DOMAIN sh.m_UniformLocations
    THEN [location |-> sh.m_UniformLocations[name],
          m_UniformLocations |-> sh.m_UniformLocations,
          calls |-> <<>>, answers |-> <<>>]
    ELSE LET location == glGetUniformLocation(sh.m_ID, name)
         IN  [location |-> location,
              m_UniformLocations |-> (name :> location) @@ sh.m_UniformLocations,
              calls |-> <<Call("glGetUniformLocation", <<sh.m_ID, name>>)>>,
              answers |-> <<location>>]

\* The upload each setter issues.
SetterUploads ==
    [SetMat4 |-> "glUniformMatrix4fv", SetVec4 |-> "glUniform4fv",
     SetVec3 |-> "glUniform3fv", SetVec2 |-> "glUniform2fv",
     SetFloat |-> "glUniform1f", SetInt |-> "glUniform1i", SetBool |-> "glUniform1i"]
Setters == DOMAIN SetterUploads

\* Shader::SetMat4, SetVec4, SetVec3, SetVec2, SetFloat, SetInt, SetBool:
\* Use(); glUniform...(GetUniformLocation(name), ...).
SetUniform(setter, s, name) ==
    /\ OnlyShader
    /\ shaders[s].live
    /\ LET got == GetUniformLocation(shaders[s], name) IN
        /\ Len(glLocationQueries[s][name]) + Len(got.answers) <= MaxQueries
        /\ glCurrentProgram' = shaders[s].m_ID
        /\ shaders' = [shaders EXCEPT ![s].m_UniformLocations = got.m_UniformLocations]
        /\ shCalls' = <<Call("glUseProgram", <<shaders[s].m_ID>>)>>
                        \o got.calls
                        \o <<Call(SetterUploads[setter], <<got.location>>)>>
        /\ glLocationQueries' = [glLocationQueries EXCEPT ![s][name] = @ \o got.answers]
    /\ UNCHANGED <<glPrograms, glDeleteProgramCalls, glUniforms>>

SetMat4(s, name) == SetUniform("SetMat4", s, name)
SetVec4(s, name) == SetUniform("SetVec4", s, name)
SetVec3(s, name) == SetUniform("SetVec3", s, name)
SetVec2(s, name) == SetUniform("SetVec2", s, name)
SetFloat(s, name) == SetUniform("SetFloat", s, name)
SetInt(s, name) == SetUniform("SetInt", s, name)
SetBool(s, name) == SetUniform("SetBool", s, name)

(***************************************************************************)
(* Texture, VertexBufferObject, ElementBufferObject, VertexArrayObject:    *)
(* the wrappers of one driver name each, and the driver's side of them.    *)
(* The driver is taken never to hand out a name twice.                     *)
(***************************************************************************)
\* Two wrapper objects: every operation involves at most two.
ObjSlots == {1, 2}
Names == 1..MaxNames
NameSpaces == {"texture", "buffer", "vertexArray"}
Lens == 0..MaxLen

Empty == 0               \* BufferUsage::Empty
StaticDraw == 35044      \* BufferUsage::StaticDraw = GL_STATIC_DRAW
Texture2D == 3553        \* TextureType::Texture2D = GL_TEXTURE_2D
SizeofVertex == 44       \* sizeof(Vertex): 3 + 3 + 3 + 2 floats
SizeofIndex == 4         \* sizeof(unsigned int)

TextureTypes == {Texture2D}
\* What stbi_load reports: a decoded 2x2 RGBA image, or nothing (the three
\* members keep their initial 0).
Images == {[w |-> 2, h |-> 2, c |-> 4], [w |-> 0, h |-> 0, c |-> 0]}
\* The usage values glBufferData accepts; any other is GL_INVALID_ENUM.
ValidUsages == {StaticDraw}

NoObj == [cls |-> "none"]

ResInit ==
    /\ objs = [o \in ObjSlots |-> NoObj]
    /\ glNames = [ns \in NameSpaces |-> {}]
    /\ glDeleteCalls = [ns \in NameSpaces |-> [n \in Names |-> 0]]
    /\ glZeroDeletes = {}
    /\ glBufferSize = [n \in Names |-> 0]

\* glGenTextures / glGenBuffers / glGenVertexArrays: the name returned.
GenName(ns) == Cardinality(glNames[ns]) + 1
TotalNames == Cardinality(glNames["texture"]) + Cardinality(glNames["buffer"])
              + Cardinality(glNames["vertexArray"])
CanGen(ns) == TotalNames < MaxNames

\* glDeleteTextures / glDeleteBuffers / glDeleteVertexArrays (1, &id),
\* without the zeroing of the source that a move does.
DeleteNameOnly(ns, id) ==
    /\ glDeleteCalls' = IF id = 0 THEN glDeleteCalls
                        ELSE [glDeleteCalls EXCEPT ![ns][id] = @ + 1]
    /\ glZeroDeletes' = IF id = 0 THEN glZeroDeletes \cup {ns} ELSE glZeroDeletes

\* glBufferData(target, size, data, usage) on the buffer bound to target:
\* the data-store sizes after it. With no buffer bound or an invalid usage
\* the call is an error and changes nothing.
glBufferData(sizes, id, size, usage) ==
    IF id = 0 \/ usage \notin ValidUsages THEN sizes ELSE [sizes EXCEPT ![id] = size]

\* The name space of a wrapper class.
NameSpaceOf(cls) ==
    CASE cls = "Texture" -> "texture"
      [] cls = "VertexArrayObject" -> "vertexArray"
      [] OTHER -> "buffer"

\* A move that keeps the handle in the source as well.
MovedFromKeepsHandle(src) == src

\* The moved-from object of the move constructors and move assignments:
\* other.m_ID = 0.
MovedFrom(src) == [src EXCEPT !.m_ID = 0]

\* Texture::Texture(path, type, flipY, ...)
TextureCtor(o, type, img) ==
    /\ UNCHANGED <<winVars, shVars, goVars>>
    /\ clog' = IF img.c = 0 THEN <<Warning("Failed to load texture from path")>> ELSE <<>>
    /\ objs[o].cls = "none"
    /\ CanGen("texture")
    /\ glNames' = [glNames EXCEPT !["texture"] = @ \cup {GenName("texture")}]
    /\ objs' = [objs EXCEPT ![o] =
                  [cls |-> "Texture", m_ID |-> GenName("texture"), m_Width |-> img.w,
                   m_Height |-> img.h, m_Channels |-> img.c, m_Type |-> type]]
    /\ UNCHANGED <<glDeleteCalls, glZeroDeletes, glBufferSize>>

\* Texture::Texture(Texture&& other): only m_ID is taken; the other members
\* get their in-class initialisers (m_Type{} is the value 0).
TextureMoveCtor(dst, src) ==
    /\ OnlyResources
    /\ dst # src
    /\ objs[dst].cls = "none"
    /\ objs[src].cls = "Texture"
    /\ objs' = [objs EXCEPT
                  ![dst] = [cls |-> "Texture", m_ID |-> objs[src].m_ID, m_Width |-> 0,
                            m_Height |-> 0, m_Channels |-> 0, m_Type |-> 0],
                  ![src] = MovedFrom(objs[src])]
    /\ UNCHANGED <<glNames, glDeleteCalls, glZeroDeletes, glBufferSize>>

\* VertexBufferObject(vertices, _usage) / ElementBufferObject(indices, _usage)
\* with n elements of elemSize bytes.
BufferCtor(cls, elemSize, o, n, usage) ==
    /\ OnlyResources
    /\ objs[o].cls = "none"
    /\ CanGen("buffer")
    /\ glNames' = [glNames EXCEPT !["buffer"] = @ \cup {GenName("buffer")}]
    /\ objs' = [objs EXCEPT ![o] =
                  [cls |-> cls, m_ID |-> GenName("buffer"), m_Usage |-> usage,
                   m_Size |-> n * elemSize, m_Count |-> n]]
    /\ glBufferSize' = glBufferData(glBufferSize, GenName("buffer"), n * elemSize, usage)
    /\ UNCHANGED <<glDeleteCalls, glZeroDeletes>>

\* VertexBufferObject() / ElementBufferObject()
BufferDefaultCtor(cls, o) ==
    /\ OnlyResources
    /\ objs[o].cls = "none"
    /\ CanGen("buffer")
    /\ glNames' = [glNames EXCEPT !["buffer"] = @ \cup {GenName("buffer")}]
    /\ objs' = [objs EXCEPT ![o] =
                  [cls |-> cls, m_ID |-> GenName("buffer"), m_Usage |-> Empty,
                   m_Size |-> 0, m_Count |-> 0]]
    /\ UNCHANGED <<glDeleteCalls, glZeroDeletes, glBufferSize>>

\* VertexBufferObject(VertexBufferObject&&) / ElementBufferObject(ElementBufferObject&&):
\* m_ID and m_Usage are taken; m_Size and the element count get their
\* in-class initialiser 0. The source also gets m_Usage = Empty.
BufferMoveCtor(cls, dst, src) ==
    /\ OnlyResources
    /\ dst # src
    /\ objs[dst].cls = "none"
    /\ objs[src].cls = cls
    /\ objs' = [objs EXCEPT
                  ![dst] = [cls |-> cls, m_ID |-> objs[src].m_ID,
                            m_Usage |-> objs[src].m_Usage, m_Size |-> 0, m_Count |-> 0],
                  ![src] = [MovedFrom(objs[src]) EXCEPT !.m_Usage = Empty]]
    /\ UNCHANGED <<glNames, glDeleteCalls, glZeroDeletes, glBufferSize>>

\* VertexBufferObject::operator=(VertexBufferObject&&) /
\* ElementBufferObject::operator=(ElementBufferObject&&): the element count,
\* m_Usage and m_ID are taken, m_Size is not.
BufferMoveAssign(cls, dst, src) ==
    /\ OnlyResources
    /\ objs[dst].cls = cls
    /\ objs[src].cls = cls
    /\ IF dst # src
       THEN /\ DeleteNameOnly("buffer", objs[dst].m_ID)
            /\ objs' = [objs EXCEPT
                          ![dst] = [objs[dst] EXCEPT !.m_Count = objs[src].m_Count,
                                                     !.m_Usage = objs[src].m_Usage,
                                                     !.m_ID = objs[src].m_ID],
                          ![src] = MovedFrom(objs[src])]
       ELSE UNCHANGED <<objs, glDeleteCalls, glZeroDeletes>>
    /\ UNCHANGED <<glNames, glBufferSize>>

\* UpdateVBO with the element count stored in the reallocation branch only.
BufferUpdateCountOnRealloc(cls, elemSize, o, n) ==
    /\ OnlyResources
    /\ objs[o].cls = cls
    /\ LET newSize == n * elemSize IN
       IF newSize = objs[o].m_Size
       THEN UNCHANGED <<objs, glBufferSize>>
       ELSE /\ glBufferSize' = glBufferData(glBufferSize, objs[o].m_ID, newSize, objs[o].m_Usage)
            /\ objs' = [objs EXCEPT ![o].m_Count = n, ![o].m_Size = newSize]
    /\ UNCHANGED <<glNames, glDeleteCalls, glZeroDeletes>>

\* VertexBufferObject::UpdateVBO / ElementBufferObject::UpdateVBO with n elements.
BufferUpdate(cls, elemSize, o, n) ==
    /\ OnlyResources
    /\ objs[o].cls = cls
    /\ LET newSize == n * elemSize IN
       IF newSize = objs[o].m_Size
       THEN \* glBufferSubData(target, 0, newSize, data): the data store keeps its size
            /\ objs' = [objs EXCEPT ![o].m_Count = n]
            /\ UNCHANGED glBufferSize
       ELSE /\ glBufferSize' = glBufferData(glBufferSize, objs[o].m_ID, newSize, objs[o].m_Usage)
            /\ objs' = [objs EXCEPT ![o].m_Count = n, ![o].m_Size = newSize]
    /\ UNCHANGED <<glNames, glDeleteCalls, glZeroDeletes>>

\* VertexBufferObject::GetVertexCount / ElementBufferObject::GetIndexCount
GetVertexCount(o) == objs[o].m_Count
GetIndexCount(o) == objs[o].m_Count

\* VertexArrayObject::VertexArrayObject
VertexArrayObjectCtor(o) ==
    /\ OnlyResources
    /\ objs[o].cls = "none"
    /\ CanGen("vertexArray")
    /\ glNames' = [glNames EXCEPT !["vertexArray"] = @ \cup {GenName("vertexArray")}]
    /\ objs' = [objs EXCEPT ![o] = [cls |-> "VertexArrayObject", m_ID |-> GenName("vertexArray")]]
    /\ UNCHANGED <<glDeleteCalls, glZeroDeletes, glBufferSize>>

\* VertexArrayObject(VertexArrayObject&& other)
VertexArrayObjectMoveCtor(dst, src) ==
    /\ OnlyResources
    /\ dst # src
    /\ objs[dst].cls = "none"
    /\ objs[src].cls = "VertexArrayObject"
    /\ objs' = [objs EXCEPT
                  ![dst] = [cls |-> "VertexArrayObject", m_ID |-> objs[src].m_ID],
                  ![src] = MovedFrom(objs[src])]
    /\ UNCHANGED <<glNames, glDeleteCalls, glZeroDeletes, glBufferSize>>

\* Texture::operator=(Texture&&) / VertexArrayObject::operator=(VertexArrayObject&&):
\* only m_ID is taken.
HandleMoveAssign(cls, dst, src) ==
    /\ OnlyResources
    /\ objs[dst].cls = cls
    /\ objs[src].cls = cls
    /\ IF dst # src
       THEN /\ DeleteNameOnly(NameSpaceOf(cls), objs[dst].m_ID)
            /\ objs' = [objs EXCEPT
                          ![dst] = [objs[dst] EXCEPT !.m_ID = objs[src].m_ID],
                          ![src] = MovedFrom(objs[src])]
       ELSE UNCHANGED <<objs, glDeleteCalls, glZeroDeletes>>
    /\ UNCHANGED <<glNames, glBufferSize>>

\* ~Texture / ~VertexBufferObject / ~ElementBufferObject / ~VertexArrayObject
Dtor(cls, o) ==
    /\ OnlyResources
    /\ objs[o].cls = cls
    /\ DeleteNameOnly(NameSpaceOf(cls), objs[o].m_ID)
    /\ objs' = [objs EXCEPT ![o] = NoObj]
    /\ UNCHANGED <<glNames, glBufferSize>>

TextureMoveAssign(dst, src) == HandleMoveAssign("Texture", dst, src)
TextureDtor(o) == Dtor("Texture", o)
VertexArrayObjectMoveAssign(dst, src) == HandleMoveAssign("VertexArrayObject", dst, src)
VertexArrayObjectDtor(o) == Dtor("VertexArrayObject", o)

VertexBufferObjectCtor(o, n, usage) == BufferCtor("VertexBufferObject", SizeofVertex, o, n, usage)
VertexBufferObjectDefaultCtor(o) == BufferDefaultCtor("VertexBufferObject", o)
VertexBufferObjectMoveCtor(dst, src) == BufferMoveCtor("VertexBufferObject", dst, src)
VertexBufferObjectMoveAssign(dst, src) == BufferMoveAssign("VertexBufferObject", dst, src)
VertexBufferObjectUpdateVBO(o, n) == BufferUpdate("VertexBufferObject", SizeofVertex, o, n)
VertexBufferObjectDtor(o) == Dtor("VertexBufferObject", o)

ElementBufferObjectCtor(o, n, usage) == BufferCtor("ElementBufferObject", SizeofIndex, o, n, usage)
ElementBufferObjectDefaultCtor(o) == BufferDefaultCtor("ElementBufferObject", o)
ElementBufferObjectMoveCtor(dst, src) == BufferMoveCtor("ElementBufferObject", dst, src)
ElementBufferObjectMoveAssign(dst, src) == BufferMoveAssign("ElementBufferObject", dst, src)
ElementBufferObjectUpdateVBO(o, n) == BufferUpdate("ElementBufferObject", SizeofIndex, o, n)
ElementBufferObjectDtor(o) == Dtor("ElementBufferObject", o)

(***************************************************************************)
(* GameObject: the shared Renderable and Texture, and Render. The Shader,  *)
(* the vertex array and the texture are the ones with the driver name 1.   *)
(***************************************************************************)
NullPtr == [null |-> TRUE]
ShaderPtrs == {NullPtr, [null |-> FALSE, m_ID |-> 1]}
RenderModes == {"Triangles", "Points"}

\* What reading m_IndexCount through a null m_EBO may do: end the process,
\* or yield some count; the test GetEBO() != nullptr that follows the read
\* may then see the null pointer, or have been compiled away (sawNull).
EboReads == {[crash |-> TRUE]} \cup [crash : {FALSE}, count : Lens, sawNull : BOOLEAN]
\* What reading m_VertexCount through a null m_VBO may do.
VboReads == {[crash |-> TRUE]} \cup [crash : {FALSE}, count : Lens]

\* The reads that matter for a Renderable: with the buffer present the read
\* is defined and the choice is immaterial.
EboReadsOf(renderable) ==
    IF renderable.null THEN {[crash |-> TRUE]}
    ELSE IF renderable.m_EBO.null THEN EboReads ELSE {[crash |-> TRUE]}
VboReadsOf(renderable) ==
    IF renderable.null THEN {[crash |-> TRUE]}
    ELSE IF renderable.m_VBO.null THEN VboReads ELSE {[crash |-> TRUE]}

GoInit ==
    /\ m_Renderable = NullPtr
    /\ m_Texture = NullPtr
    /\ uniformCache = {}
    /\ glBinding = [program |-> 0, vertexArray |-> 0, texture |-> 0]
    /\ glCalls = <<>>
    /\ crashed = FALSE

\* Renderable(): a vertex array only.
RenderableDefault ==
    [null |-> FALSE, m_VAO |-> 1, m_VBO |-> NullPtr, m_EBO |-> NullPtr]

\* Renderable(vertices, vboUsage) with n vertices.
RenderableOfVertices(n) ==
    [null |-> FALSE, m_VAO |-> 1, m_VBO |-> [null |-> FALSE, m_VertexCount |-> n],
     m_EBO |-> NullPtr]

\* Renderable(vertices, vboUsage, indices, eboUsage) with n vertices and k
\* indices: the index buffer is made only if (indices.size() > 0).
RenderableOfIndexed(n, k) ==
    [null |-> FALSE, m_VAO |-> 1, m_VBO |-> [null |-> FALSE, m_VertexCount |-> n],
     m_EBO |-> IF k > 0 THEN [null |-> FALSE, m_IndexCount |-> k] ELSE NullPtr]

Renderables ==
    {NullPtr, RenderableDefault}
    \cup {RenderableOfVertices(n) : n \in Lens}
    \cup {RenderableOfIndexed(n, k) : n \in Lens, k \in Lens}

\* GameObject::CreateRenderable / SetRenderable
SetRenderable(renderable) ==
    /\ OnlyGameObject
    /\ ~crashed
    /\ m_Renderable' = renderable
    /\ UNCHANGED <<m_Texture, uniformCache, glBinding, glCalls, crashed>>

\* GameObject::CreateTexture / SetTexture
SetTexture(texture) ==
    /\ OnlyGameObject
    /\ ~crashed
    /\ m_Texture' = texture
    /\ UNCHANGED <<m_Renderable, uniformCache, glBinding, glCalls, crashed>>

\* m_Renderable->GetEBO()->UpdateVBO(indices) with k indices.
UpdateIndices(k) ==
    /\ OnlyGameObject
    /\ ~crashed
    /\ ~m_Renderable.null
    /\ ~m_Renderable.m_EBO.null
    /\ m_Renderable' = [m_Renderable EXCEPT !.m_EBO.m_IndexCount = k]
    /\ UNCHANGED <<m_Texture, uniformCache, glBinding, glCalls, crashed>>

\* Other code of the application binds a program and a vertex array.
BindElsewhere(program, vertexArray) ==
    /\ OnlyGameObject
    /\ ~crashed
    /\ glBinding' = [glBinding EXCEPT !.program = program, !.vertexArray = vertexArray]
    /\ UNCHANGED <<m_Renderable, m_Texture, uniformCache, glCalls, crashed>>

\* Shader::GetUniformLocation(name): the driver is asked unless name is cached.
GetUniformLocationCalls(cache, name) ==
    IF name \in cache THEN <<>> ELSE <<Call("glGetUniformLocation", <<1, name>>)>>

\* Render up to and including m_Renderable->GetVAO().Use().
RenderHead(modelName, sampler2DName) ==
    <<Call("glUseProgram", <<1>>)>>
    \o <<Call("glUseProgram", <<1>>)>>
    \o GetUniformLocationCalls(uniformCache, modelName)
    \o <<Call("glUniformMatrix4fv", <<modelName>>)>>
    \o (IF m_Texture.null THEN <<>>
        ELSE <<Call("glActiveTexture", <<0>>),
               Call("glBindTexture", <<m_Texture.m_ID>>),
               Call("glUseProgram", <<1>>)>>
             \o GetUniformLocationCalls(uniformCache \cup {modelName}, sampler2DName)
             \o <<Call("glUniform1i", <<sampler2DName, 0>>)>>)
    \o <<Call("glBindVertexArray", <<m_Renderable.m_VAO>>)>>

\* RenderTail without shader->Unuse().
RenderTailKeepsProgram ==
    <<Call("glBindVertexArray", <<0>>)>>
    \o (IF m_Texture.null THEN <<>> ELSE <<Call("glBindTexture", <<0>>)>>)

\* Render after the draw call.
RenderTail ==
    <<Call("glBindVertexArray", <<0>>)>>
    \o (IF m_Texture.null THEN <<>> ELSE <<Call("glBindTexture", <<0>>)>>)
    \o <<Call("glUseProgram", <<0>>)>>

\* The if/else of Render that issues the draw call. The condition reads
\* GetEBO()->GetIndexCount() before it tests GetEBO() != nullptr, and the
\* else branch reads GetVBO().GetVertexCount(): with m_EBO (m_VBO) null the
\* read is undefined, and eboRead (vboRead) is what it does.
DrawOf(renderMode, eboRead, vboRead) ==
    LET ebo == m_Renderable.m_EBO
        vbo == m_Renderable.m_VBO
        indexCount == IF ebo.null THEN eboRead.count ELSE ebo.m_IndexCount
        isNull == IF ebo.null THEN eboRead.sawNull ELSE FALSE
    IN  IF ebo.null /\ eboRead.crash THEN [crash |-> TRUE]
        ELSE IF indexCount > 0 /\ ~isNull
        THEN [crash |-> FALSE, call |-> Call("glDrawElements", <<renderMode, indexCount>>)]
        ELSE IF vbo.null /\ vboRead.crash THEN [crash |-> TRUE]
        ELSE [crash |-> FALSE,
              call |-> Call("glDrawArrays",
                            <<renderMode, 0, IF vbo.null THEN vboRead.count
                                             ELSE vbo.m_VertexCount>>)]

\* GameObject::Render(shader, modelName, sampler2DName, renderMode)
Render(shader, modelName, sampler2DName, renderMode, eboRead, vboRead) ==
    /\ OnlyGameObject
    /\ ~crashed
    /\ UNCHANGED <<m_Renderable, m_Texture>>
    /\ IF m_Renderable.null \/ shader.null
       THEN /\ glCalls' = <<>>
            /\ UNCHANGED <<uniformCache, glBinding, crashed>>
       ELSE LET draw == DrawOf(renderMode, eboRead, vboRead)
                cache == uniformCache \cup {modelName}
                               \cup (IF m_Texture.null THEN {} ELSE {sampler2DName})
            IN  /\ uniformCache' = cache
                /\ crashed' = draw.crash
                /\ IF draw.crash
                   THEN /\ glCalls' = RenderHead(modelName, sampler2DName)
                        /\ glBinding' =
                              [program |-> 1, vertexArray |-> m_Renderable.m_VAO,
                               texture |-> IF m_Texture.null THEN glBinding.texture
                                           ELSE m_Texture.m_ID]
                   ELSE /\ glCalls' = RenderHead(modelName, sampler2DName)
                                        \o <<draw.call>> \o RenderTail
                        /\ glBinding' =
                              [program |-> 0, vertexArray |-> 0,
                               texture |-> IF m_Texture.null THEN glBinding.texture ELSE 0]

WindowCtorStep ==
    \E size \in WindowSizes, drawable \in WindowSizes,
       sdlInit \in BOOLEAN, createWindow \in BOOLEAN,
       createContext \in BOOLEAN, gladLoad \in BOOLEAN :
        WindowCtor(size, sdlInit, createWindow, createContext, gladLoad, drawable)
FirstUpdateInput == \E evs \in InputSeqs : FirstUpdate(evs)
FirstUpdateFrame == \E evs \in FrameSeqs : FirstUpdate(evs)
FirstUpdateMixed == \E evs \in MixedSeqs : FirstUpdate(evs)
CheckKeyStep == \E key \in KeyCodes : CheckKey(key)
CheckMouseButtonStep == \E key \in ButtonCodes : CheckMouseButton(key)

\* The Window driven by key and button events and queried.
InputNext ==
    \/ WindowCtorStep
    \/ FirstUpdateInput
    \/ SecondUpdate
    \/ CheckKeyStep
    \/ CheckMouseButtonStep

\* The Window driven by the clock and by quit, window, motion and wheel events.
FrameNext ==
    \/ WindowCtorStep
    \/ Tick
    \/ UpdateDeltaTime
    \/ FirstUpdateFrame
    \/ SecondUpdate
    \/ CloseWindow

\* The Window driven by the events of one key, one button and the pointer,
\* and queried.
LastEventNext ==
    \/ WindowCtorStep
    \/ FirstUpdateMixed
    \/ CheckKeyStep
    \/ CheckMouseButton(1)
    \/ SecondUpdate

\* Shader objects constructed, copied, used and destroyed.
ShaderNext ==
    \/ \E s \in ShaderSlots, in \in ShaderInputs : ShaderCtor(s, in)
    \/ \E dst \in ShaderSlots, src \in ShaderSlots : ShaderCopyCtor(dst, src)
    \/ \E dst \in ShaderSlots, src \in ShaderSlots : ShaderCopyAssign(dst, src)
    \/ \E s \in ShaderSlots : ShaderDtor(s)
    \/ \E s \in ShaderSlots : ShaderUse(s)
    \/ \E s \in ShaderSlots : ShaderUnuse(s)

\* Texture, buffer and vertex-array wrappers constructed, moved, updated and
\* destroyed.
ResNext ==
    \/ \E o \in ObjSlots, type \in TextureTypes, img \in Images : TextureCtor(o, type, img)
    \/ \E dst \in ObjSlots, src \in ObjSlots : TextureMoveCtor(dst, src)
    \/ \E dst \in ObjSlots, src \in ObjSlots : TextureMoveAssign(dst, src)
    \/ \E o \in ObjSlots : TextureDtor(o)
    \/ \E o \in ObjSlots, n \in Lens, usage \in ValidUsages : VertexBufferObjectCtor(o, n, usage)
    \/ \E o \in ObjSlots : VertexBufferObjectDefaultCtor(o)
    \/ \E dst \in ObjSlots, src \in ObjSlots : VertexBufferObjectMoveCtor(dst, src)
    \/ \E dst \in ObjSlots, src \in ObjSlots : VertexBufferObjectMoveAssign(dst, src)
    \/ \E o \in ObjSlots, n \in Lens : VertexBufferObjectUpdateVBO(o, n)
    \/ \E o \in ObjSlots : VertexBufferObjectDtor(o)
    \/ \E o \in ObjSlots, n \in Lens, usage \in ValidUsages : ElementBufferObjectCtor(o, n, usage)
    \/ \E o \in ObjSlots : ElementBufferObjectDefaultCtor(o)
    \/ \E dst \in ObjSlots, src \in ObjSlots : ElementBufferObjectMoveCtor(dst, src)
    \/ \E dst \in ObjSlots, src \in ObjSlots : ElementBufferObjectMoveAssign(dst, src)
    \/ \E o \in ObjSlots, n \in Lens : ElementBufferObjectUpdateVBO(o, n)
    \/ \E o \in ObjSlots : ElementBufferObjectDtor(o)
    \/ \E o \in ObjSlots : VertexArrayObjectCtor(o)
    \/ \E dst \in ObjSlots, src \in ObjSlots : VertexArrayObjectMoveCtor(dst, src)
    \/ \E dst \in ObjSlots, src \in ObjSlots : VertexArrayObjectMoveAssign(dst, src)
    \/ \E o \in ObjSlots : VertexArrayObjectDtor(o)

RenderStep ==
    \E shader \in ShaderPtrs, modelName \in {"model"}, sampler2DName \in UniformNames,
       renderMode \in RenderModes, eboRead \in EboReadsOf(m_Renderable),
       vboRead \in VboReadsOf(m_Renderable) :
        Render(shader, modelName, sampler2DName, renderMode, eboRead, vboRead)

\* A GameObject given Renderables and Textures and rendered.
GoNext ==
    \/ \E renderable \in Renderables : SetRenderable(renderable)
    \/ \E texture \in {NullPtr, [null |-> FALSE, m_ID |-> 1]} : SetTexture(texture)
    \/ \E k \in Lens : UpdateIndices(k)
    \/ \E program \in 0..1, vertexArray \in 0..1 : BindElsewhere(program, vertexArray)
    \/ RenderStep

\* One Shader object at a time constructed, given uniforms and destroyed.
UniformNext ==
    \/ \E s \in {1}, in \in ShaderInputs : ShaderCtor(s, in)
    \/ \E s \in {1}, name \in UniformNames : SetMat4(s, name)
    \/ \E s \in {1}, name \in UniformNames : SetVec4(s, name)
    \/ \E s \in {1}, name \in UniformNames : SetVec3(s, name)
    \/ \E s \in {1}, name \in UniformNames : SetVec2(s, name)
    \/ \E s \in {1}, name \in UniformNames : SetFloat(s, name)
    \/ \E s \in {1}, name \in UniformNames : SetInt(s, name)
    \/ \E s \in {1}, name \in UniformNames : SetBool(s, name)
    \/ \E s \in {1} : ShaderUnuse(s)
    \/ \E s \in {1} : ShaderDtor(s)

Init == WinInit /\ ShaderInit /\ ResInit /\ GoInit

SpecInput == Init /\ [][InputNext]_vars
SpecFrame == Init /\ [][FrameNext]_vars
SpecLastEvent == Init /\ [][LastEventNext]_vars
SpecShader == Init /\ [][ShaderNext]_vars
SpecResources == Init /\ [][ResNext]_vars
SpecGameObject == Init /\ [][GoNext]_vars
SpecUniform == Init /\ [][UniformNext]_vars

(***************************************************************************)
(* Properties of the Window.                                               *)
(***************************************************************************)
Sign(x) == IF x > 0 THEN 1 ELSE IF x < 0 THEN -1 ELSE 0

RECURSIVE WheelSum(_)
\* Sum of the wheel directions of the wheel events of evs.
WheelSum(evs) ==
    IF evs = <<>> THEN 0
    ELSE (IF Head(evs).type = "SDL_MOUSEWHEEL" THEN Sign(Head(evs).preciseY) ELSE 0)
         + WheelSum(Tail(evs))

HasKeyUp(evs, k) ==
    \E i \in DOMAIN evs : evs[i].type = "SDL_KEYUP" /\ evs[i].scancode = k
HasButtonUp(evs, b) ==
    \E i \in DOMAIN evs : evs[i].type = "SDL_MOUSEBUTTONUP" /\ evs[i].button = b

\* C1: every key and button code that no event has touched is reported as
\* Released: none of the four queries returns true for it, whatever
\* FirstUpdate, SecondUpdate and query calls came before.
C1_UntouchedReadsReleased ==
    winState = "ok" =>
        /\ \A k \in KeyCodes : <<"key", k>> \notin touched =>
                ~CheckKeyUpRet(k) /\ ~CheckKeyDownRet(k)
        /\ \A b \in ButtonCodes : <<"button", b>> \notin touched =>
                ~CheckMouseButtonUpRet(b) /\ ~CheckMouseButtonDownRet(b)

\* C2: SecondUpdate is exactly the decay pass: it keeps the set of codes,
\* turns JustPressed into Down and JustReleased into Released, leaves Down
\* and Released alone, and so leaves no code JustPressed or JustReleased.
C2_SecondUpdateIsDecay ==
    [][SecondUpdate =>
        /\ DOMAIN m_Keys' = DOMAIN m_Keys
        /\ DOMAIN m_MouseButtons' = DOMAIN m_MouseButtons
        /\ \A k \in DOMAIN m_Keys :
              /\ m_Keys[k] = JustPressed => m_Keys'[k] = Down
              /\ m_Keys[k] = JustReleased => m_Keys'[k] = Released
              /\ m_Keys[k] \in {Down, Released} => m_Keys'[k] = m_Keys[k]
              /\ m_Keys'[k] \notin {JustPressed, JustReleased}
        /\ \A b \in DOMAIN m_MouseButtons :
              /\ m_MouseButtons[b] = JustPressed => m_MouseButtons'[b] = Down
              /\ m_MouseButtons[b] = JustReleased => m_MouseButtons'[b] = Released
              /\ m_MouseButtons[b] \in {Down, Released} => m_MouseButtons'[b] = m_MouseButtons[b]
              /\ m_MouseButtons'[b] \notin {JustPressed, JustReleased}]_vars

\* A key pressed by an event has decayed to Down and a button released by an
\* event has decayed to Released.
C2_Witness ==
    /\ \E k \in DOMAIN m_Keys : <<"key", k>> \in touched /\ m_Keys[k] = Down
    /\ \E b \in DOMAIN m_MouseButtons :
          <<"button", b>> \in touched /\ m_MouseButtons[b] = Released

\* C3: a code that is Down leaves Down only in a FirstUpdate that drains a
\* release event for that code; no other step, a further down event for the
\* code included, moves it out of Down.
C3_DownUntilRelease ==
    [][/\ \A k \in DOMAIN m_Keys :
            (m_Keys[k] = Down /\ m_Keys'[k] # Down) =>
                \E evs \in InputSeqs : FirstUpdate(evs) /\ HasKeyUp(evs, k)
       /\ \A b \in DOMAIN m_MouseButtons :
            (m_MouseButtons[b] = Down /\ m_MouseButtons'[b] # Down) =>
                \E evs \in InputSeqs : FirstUpdate(evs) /\ HasButtonUp(evs, b)]_vars

\* C4 as stated: draining one wheel event moves the scroll accumulator by
\* rate * elapsed with the sign of the wheel direction (at 0.1 s: -55.0 for
\* preciseY < 0, +55.0 for preciseY > 0).
C4_WheelSignAsStated ==
    [][\A y \in {-1, 1} :
          FirstUpdate(<<[type |-> "SDL_MOUSEWHEEL", preciseY |-> y]>>) =>
              m_ScrollDistance' = m_ScrollDistance + Sign(y) * m_ZoomSpeed * m_DeltaTime]_vars

\* C4 amended: each wheel event drained moves the scroll accumulator by
\* rate * elapsed against the sign of the wheel direction: preciseY > 0
\* subtracts (-55.0 at 0.1 s), preciseY < 0 adds (+55.0 at 0.1 s), and
\* preciseY = 0 changes nothing.
C4_WheelScrollAmended ==
    [][(inFrame' /\ UNCHANGED <<m_IsOpen, m_IsResized, m_Width, m_Height, MouseRel,
                                m_MousePosX, m_MousePosY, m_DeltaTime, clock>>) =>
       \A evs \in SeqsOf([type : {"SDL_MOUSEWHEEL"}, preciseY : {-1, 0, 1}]) :
          FirstUpdate(evs) =>
              m_ScrollDistance' = m_ScrollDistance - WheelSum(evs) * m_ZoomSpeed * m_DeltaTime]_vars

\* With 0.1 s elapsed (one tick) the accumulator stands at -55.0.
C4_Witness == winState = "ok" /\ m_DeltaTime = 1 /\ m_ScrollDistance = -m_ZoomSpeed

\* C5: FirstUpdate samples the clock: after it m_DeltaTime is the time since
\* the previous sample and the sample is the current counter value.
C5_FirstUpdateUpdatesDelta ==
    [][\A evs \in FrameSeqs :
          FirstUpdate(evs) =>
              (m_DeltaTime' = clock - m_LastFrame /\ m_LastFrame' = clock)]_vars

\* C10: when SDL_Init, SDL_CreateWindow, SDL_GL_CreateContext or the GLAD
\* loader fails, Window::Window throws and runs neither the viewport setup
\* nor the input-state initialisation.
C10_FailureAbortsCtor ==
    [][\A size \in WindowSizes, drawable \in WindowSizes,
          sdlInit \in BOOLEAN, createWindow \in BOOLEAN,
          createContext \in BOOLEAN, gladLoad \in BOOLEAN :
          (/\ WindowCtor(size, sdlInit, createWindow, createContext, gladLoad, drawable)
           /\ ~(sdlInit /\ createWindow /\ createContext /\ gladLoad))
          => (winState' = "thrown" /\ viewport' = <<>> /\ m_Keys' = EmptyMap)]_vars

(***************************************************************************)
(* Properties of Shader.                                                   *)
(***************************************************************************)
ShaderHolders(id) == {s \in ShaderSlots : shaders[s].live /\ shaders[s].m_ID = id}

\* C6: the program handle is exclusively owned: no two live Shader objects
\* hold the same program, and every program created is either held by one
\* live Shader and not yet deleted, or held by none and deleted exactly once.
C6_ProgramExclusivelyOwned ==
    \A id \in glPrograms :
        Cardinality(ShaderHolders(id)) + glDeleteProgramCalls[id] = 1

(***************************************************************************)
(* Properties of the driver-handle wrappers.                               *)
(***************************************************************************)
Holders(ns, id) ==
    {o \in ObjSlots : /\ objs[o].cls # "none"
                      /\ NameSpaceOf(objs[o].cls) = ns
                      /\ objs[o].m_ID = id}

\* C7: for Texture, VertexBufferObject, ElementBufferObject and
\* VertexArrayObject every name the driver generated is either held by
\* exactly one object and not deleted, or held by none and deleted exactly
\* once; no other name is ever deleted. So no name is released twice or
\* leaked, a move leaves the source with 0, and destroying a moved-from
\* object releases nothing but 0.
C7_HandlesReleasedOnce ==
    \A ns \in NameSpaces : \A id \in Names :
        IF id \in glNames[ns]
        THEN Cardinality(Holders(ns, id)) + glDeleteCalls[ns][id] = 1
        ELSE Holders(ns, id) = {} /\ glDeleteCalls[ns][id] = 0

\* Two names were generated, one object was moved from and destroyed, and
\* all objects are gone: each name has been deleted once.
C7_Witness ==
    /\ \A o \in ObjSlots : objs[o].cls = "none"
    /\ TotalNames >= 2
    /\ glZeroDeletes # {}
    /\ \A ns \in NameSpaces : \A id \in glNames[ns] : glDeleteCalls[ns][id] = 1

\* C8: the m_Size tracked by a vertex or index buffer object equals the size
\* of the driver's data store of the buffer it owns, so UpdateVBO takes the
\* glBufferSubData branch exactly when the new size equals the allocated one.
C8_SizeTracksAllocation ==
    \A o \in ObjSlots :
        (objs[o].cls \in {"VertexBufferObject", "ElementBufferObject"} /\ objs[o].m_ID # 0)
            => objs[o].m_Size = glBufferSize[objs[o].m_ID]

(***************************************************************************)
(* Properties of GameObject::Render.                                       *)
(***************************************************************************)
IsDraw(call) == call.fn \in {"glDrawElements", "glDrawArrays"}

\* The draw calls the claim names for the attached Renderable.
ExpectedDraws(shader, renderMode) ==
    IF m_Renderable.null \/ shader.null THEN <<>>
    ELSE IF ~m_Renderable.m_EBO.null /\ m_Renderable.m_EBO.m_IndexCount > 0
    THEN <<Call("glDrawElements", <<renderMode, m_Renderable.m_EBO.m_IndexCount>>)>>
    ELSE <<Call("glDrawArrays",
                <<renderMode, 0, IF m_Renderable.m_VBO.null THEN 0
                                 ELSE m_Renderable.m_VBO.m_VertexCount>>)>>

\* C9: Render issues no driver call without a Renderable or a shader, one
\* indexed draw with the index count when there is an index buffer with a
\* nonzero count, and otherwise (no index buffer included) one non-indexed
\* draw with the vertex count, never reading through an absent buffer.
C9_RenderDraws ==
    [][\A shader \in ShaderPtrs, modelName \in {"model"}, sampler2DName \in UniformNames,
          renderMode \in RenderModes :
          (\E eboRead \in EboReads, vboRead \in VboReads :
              Render(shader, modelName, sampler2DName, renderMode, eboRead, vboRead))
          => /\ ~crashed'
             /\ (m_Renderable.null \/ shader.null) => glCalls' = <<>>
             /\ SelectSeq(glCalls', IsDraw) = ExpectedDraws(shader, renderMode)]_vars

HasWarning(log) == \E i \in DOMAIN log : log[i].level = "Warning"

\* C11: every recoverable resource failure is logged as a warning: a Shader
\* construction in which a shader file is missing, a stage fails to compile
\* or the program fails to link writes a warning to the log, and so does a
\* SetX call whose uniform name the program does not contain.
C11_FailuresLoggedAsWarnings ==
    [][/\ \A s \in ShaderSlots, in \in ShaderInputs :
            (/\ ShaderCtor(s, in)
             /\ \/ ~in.vertexOpen \/ ~in.fragmentOpen
                \/ ~in.vertexCompiles \/ ~in.fragmentCompiles
                \/ (in.geometryOpen /\ ~in.geometryCompiles)
                \/ ~Links(in))
            => HasWarning(clog')
       /\ \A setter \in Setters, s \in ShaderSlots, name \in UniformNames :
            (/\ SetUniform(setter, s, name)
             /\ glGetUniformLocation(shaders[s].m_ID, name) = -1)
            => HasWarning(clog')]_vars

\* C12: through one Shader object the driver is asked for the location of a
\* uniform name at most once, and every SetX call with that name uploads to
\* the location that first query answered, without asking again once the
\* name is cached; the answer -1 for an absent name is cached like any other.
C12_UniformLocationCached ==
    [][\A s \in ShaderSlots, name \in UniformNames :
        /\ Len(glLocationQueries'[s][name]) <= 1
        /\ \A setter \in Setters :
            SetUniform(setter, s, name)
            => /\ shCalls'[Len(shCalls')] =
                    Call(SetterUploads[setter], <<glLocationQueries'[s][name][1]>>)
               /\ name \in DOMAIN shaders[s].m_UniformLocations
                    => shCalls' = <<Call("glUseProgram", <<shaders[s].m_ID>>),
                                    shCalls'[Len(shCalls')]>>]_vars

\* A second SetX call with a name the linked program does not contain has
\* uploaded to the cached -1 without a query.
C12_Witness ==
    \E s \in ShaderSlots :
        /\ shaders[s].live
        /\ glUniforms[shaders[s].m_ID]["model"] = 0
        /\ glLocationQueries[s]["tex"] = <<-1>>
        /\ shCalls = <<Call("glUseProgram", <<shaders[s].m_ID>>),
                       Call("glUniform1i", <<-1>>)>>

HasWheel(evs) == \E i \in DOMAIN evs : evs[i].type = "SDL_MOUSEWHEEL"

\* C13: SecondUpdate leaves the scroll accumulator, the pointer position, the
\* tracked width and height, the open flag and the delta time as they were,
\* and the scroll accumulator changes only in a FirstUpdate that drains a
\* wheel event.
C13_ScrollPersists ==
    [][/\ SecondUpdate =>
            UNCHANGED <<m_ScrollDistance, m_MousePosX, m_MousePosY, m_Width, m_Height,
                        m_IsOpen, m_DeltaTime>>
       /\ m_ScrollDistance' # m_ScrollDistance =>
            \E evs \in FrameSeqs : HasWheel(evs) /\ FirstUpdate(evs)]_vars

\* After a frame end: a scrolled, moved, resized and closed window with a
\* nonzero delta time.
C13_Witness ==
    /\ winState = "ok"
    /\ ~inFrame
    /\ m_ScrollDistance # 0
    /\ m_MousePosX # 0
    /\ m_Width = 16
    /\ m_DeltaTime # 0
    /\ ~m_IsOpen

IsMotion(ev) == ev.type = "SDL_MOUSEMOTION"
IsResize(ev) == ev.type = "SDL_WINDOWEVENT" /\ ev.event = "SDL_WINDOWEVENT_RESIZED"
\* The last event of evs with the property P; evs has one.
LastEvent(evs, P(_)) ==
    evs[CHOOSE i \in DOMAIN evs : P(evs[i]) /\ \A j \in DOMAIN evs : P(evs[j]) => j <= i]

\* C14: after every SecondUpdate, and whenever no frame is open, the relative
\* displacement is (0, 0) and the resized flag is false; the displacement
\* becomes nonzero only in a FirstUpdate that drains a motion event, and the
\* flag becomes true only in a FirstUpdate that drains a resize event, which
\* also sets the tracked width and height to that event's values.
C14_OneFrameValuesCleared ==
    [][/\ SecondUpdate => (MouseRel' = <<0, 0>> /\ ~m_IsResized')
       /\ ~inFrame' => (MouseRel' = <<0, 0>> /\ ~m_IsResized')
       /\ (MouseRel' # <<0, 0>> /\ MouseRel' # MouseRel) =>
            \E evs \in FrameSeqs : (\E i \in DOMAIN evs : IsMotion(evs[i])) /\ FirstUpdate(evs)
       /\ (m_IsResized' /\ (~m_IsResized \/ <<m_Width', m_Height'>> # <<m_Width, m_Height>>)) =>
            \E evs \in FrameSeqs :
                /\ \E i \in DOMAIN evs : IsResize(evs[i])
                /\ FirstUpdate(evs)
                /\ <<m_Width', m_Height'>> = LastEvent(evs, IsResize).data]_vars

\* A frame in which a motion event was drained has just ended, in a window
\* of the larger size.
C14_Witness ==
    /\ winState = "ok"
    /\ ~inFrame
    /\ MouseRel = <<0, 0>>
    /\ ~m_IsResized
    /\ <<m_MousePosX, m_MousePosY>> = <<3, 3>>
    /\ viewport = <<16, 12>>

\* C15: the window starts open, and once a quit event has been drained or
\* CloseWindow has been called it is closed in every later state.
C15_ClosedIsTerminal ==
    winState = "ok" => (m_IsOpen <=> ~closeRequested)

\* A closed window after further frames: events were drained and the frame
\* was ended after the close.
C15_Witness ==
    /\ winState = "ok"
    /\ closeRequested
    /\ ~m_IsOpen
    /\ ~inFrame
    /\ m_IsResized = FALSE
    /\ <<m_MousePosX, m_MousePosY>> = <<3, 4>>

\* C16: a vertex buffer constructed with n vertices reports the vertex count
\* n, and after UpdateVBO with n vertices it reports n, in the sub-range-write
\* branch as in the reallocation branch; likewise the index buffer and its
\* index count.
C16_CountRoundTrip ==
    [][\A o \in ObjSlots :
        /\ objs'[o].cls = "VertexBufferObject" =>
            \A n \in Lens :
                /\ (\E usage \in ValidUsages : VertexBufferObjectCtor(o, n, usage))
                        => GetVertexCount(o)' = n
                /\ VertexBufferObjectUpdateVBO(o, n) => GetVertexCount(o)' = n
        /\ objs'[o].cls = "ElementBufferObject" =>
            \A n \in Lens :
                /\ (\E usage \in ValidUsages : ElementBufferObjectCtor(o, n, usage))
                        => GetIndexCount(o)' = n
                /\ ElementBufferObjectUpdateVBO(o, n) => GetIndexCount(o)' = n]_vars

\* A default-constructed vertex buffer (m_Usage is Empty) that was updated
\* with one vertex.
C16_Witness ==
    \E o \in ObjSlots :
        /\ objs[o].cls = "VertexBufferObject"
        /\ objs[o].m_ID # 0
        /\ objs[o].m_Usage = Empty
        /\ objs[o].m_Size = SizeofVertex
        /\ GetVertexCount(o) = 1

IsUpload(call) == call.fn \in {"glUniformMatrix4fv", "glUniform1i"}
\* Some call before position i of calls is the call c.
CalledBefore(calls, i, c) == \E j \in 1..(i - 1) : calls[j] = c

\* C17: a Render that does not return early and returns makes the shader
\* current before each uniform upload, binds the texture (if there is one)
\* to unit 0 and the vertex array before its single draw call, and after the
\* draw unbinds the vertex array, the texture and the program in that order;
\* when it returns no program and no vertex array is current, whatever was
\* bound before.
C17_RenderBindingProtocol ==
    [][\A shader \in ShaderPtrs, modelName \in {"model"}, sampler2DName \in UniformNames,
          renderMode \in RenderModes, eboRead \in EboReadsOf(m_Renderable),
          vboRead \in VboReadsOf(m_Renderable) :
          (/\ Render(shader, modelName, sampler2DName, renderMode, eboRead, vboRead)
           /\ ~m_Renderable.null /\ ~shader.null
           /\ ~crashed')
          => LET calls == glCalls'
                 draws == {i \in DOMAIN calls : IsDraw(calls[i])}
             IN  /\ Cardinality(draws) = 1
                 /\ \A d \in draws :
                      /\ \A u \in DOMAIN calls : IsUpload(calls[u]) =>
                            /\ u < d
                            /\ CalledBefore(calls, u, Call("glUseProgram", <<shader.m_ID>>))
                      /\ ~m_Texture.null =>
                            \E b \in 1..(d - 1) :
                                /\ calls[b] = Call("glBindTexture", <<m_Texture.m_ID>>)
                                /\ CalledBefore(calls, b, Call("glActiveTexture", <<0>>))
                      /\ CalledBefore(calls, d, Call("glBindVertexArray", <<m_Renderable.m_VAO>>))
                      /\ SubSeq(calls, d + 1, Len(calls)) =
                            <<Call("glBindVertexArray", <<0>>)>>
                            \o (IF m_Texture.null THEN <<>>
                                ELSE <<Call("glBindTexture", <<0>>)>>)
                            \o <<Call("glUseProgram", <<0>>)>>
                 /\ glBinding'.program = 0
                 /\ glBinding'.vertexArray = 0]_vars

\* A Render with a texture has returned: its last three calls are the unbinds.
C17_Witness ==
    /\ ~crashed
    /\ ~m_Texture.null
    /\ Len(glCalls) > 3
    /\ SubSeq(glCalls, Len(glCalls) - 2, Len(glCalls)) =
          <<Call("glBindVertexArray", <<0>>), Call("glBindTexture", <<0>>),
            Call("glUseProgram", <<0>>)>>
    /\ glBinding = [program |-> 0, vertexArray |-> 0, texture |-> 0]

IsKeyEvent(ev, k) == ev.type \in {"SDL_KEYDOWN", "SDL_KEYUP"} /\ ev.scancode = k
IsButtonEvent(ev, b) == ev.type \in {"SDL_MOUSEBUTTONDOWN", "SDL_MOUSEBUTTONUP"} /\ ev.button = b
IsDownEvent(ev) == ev.type \in {"SDL_KEYDOWN", "SDL_MOUSEBUTTONDOWN"}
\* The last event of evs among the positions I, which is not empty.
LastAt(evs, I) == evs[CHOOSE i \in I : \A j \in I : j <= i]
\* What the claim says of one map entry: before and after are the map before
\* and after FirstUpdate, I the positions of the events that name the code c.
LastEventWins(before, after, c, evs, I) ==
    IF I = {}
    THEN /\ (c \in DOMAIN after) <=> (c \in DOMAIN before)
         /\ c \in DOMAIN before => after[c] = before[c]
    ELSE /\ c \in DOMAIN after
         /\ after[c] = IF IsDownEvent(LastAt(evs, I)) THEN JustPressed ELSE JustReleased
         /\ after[c] # Down

\* C18: after a FirstUpdate each key and button code is JustPressed if the
\* last drained event that names it was a down event, JustReleased if it was
\* an up event (so never Down after a press and a release in one call), and
\* unchanged if no drained event names it; the relative displacement is that
\* of the last motion event drained, not the sum.
C18_LastEventWins ==
    [][inFrame' =>
       \A evs \in MixedSeqs :
          FirstUpdate(evs) =>
            /\ \A k \in KeyCodes :
                LastEventWins(m_Keys, m_Keys', k, evs,
                              {i \in DOMAIN evs : IsKeyEvent(evs[i], k)})
            /\ \A b \in ButtonCodes :
                LastEventWins(m_MouseButtons, m_MouseButtons', b, evs,
                              {i \in DOMAIN evs : IsButtonEvent(evs[i], b)})
            /\ LET M == {i \in DOMAIN evs : IsMotion(evs[i])}
               IN  MouseRel' = IF M = {} THEN MouseRel
                               ELSE <<LastAt(evs, M).motion.xrel, LastAt(evs, M).motion.yrel>>]_vars

\* Inside a frame: the key was released, the button pressed, and the pointer
\* moved last by (1, 0).
C18_Witness ==
    /\ winState = "ok"
    /\ inFrame
    /\ \E k \in KeyCodes : k \in DOMAIN m_Keys /\ m_Keys[k] = JustReleased
    /\ m_MouseButtons[1] = JustPressed
    /\ MouseRel = <<1, 0>>

\* The last drained event that names the code is a down event / some drained
\* event that names it is an up event.
LastIsDown(evs, I) == I # {} /\ IsDownEvent(LastAt(evs, I))
HasUp(evs, I) == \E i \in I : ~IsDownEvent(evs[i])
WasReleased(m, c) == c \in DOMAIN m /\ m[c] = Released

C20_MoveCarriesMetadata ==
    [][\A dst \in ObjSlots, src \in ObjSlots :
        /\ (\/ VertexBufferObjectMoveCtor(dst, src)
            \/ VertexBufferObjectMoveAssign(dst, src)
            \/ ElementBufferObjectMoveCtor(dst, src)
            \/ ElementBufferObjectMoveAssign(dst, src))
           => /\ objs'[dst].m_Count = objs[src].m_Count
              /\ objs'[dst].m_Size = objs[src].m_Size
        /\ (TextureMoveCtor(dst, src) \/ TextureMoveAssign(dst, src))
           => /\ objs'[dst].m_Type = objs[src].m_Type
              /\ objs'[dst].m_Width = objs[src].m_Width
              /\ objs'[dst].m_Height = objs[src].m_Height
              /\ objs'[dst].m_Channels = objs[src].m_Channels]_vars
====
